---- MODULE Spec2Model ----
(***************************************************************************)
(* CSV Split Tool (src/pretty.py): the form CSVSplitTool and the routine   *)
(* csv_split it drives, over a small filesystem.                            *)
(*                                                                         *)
(* A file is a sequence of rows, a row a sequence of fields: the level at  *)
(* which csv.reader hands rows out and csv.writer takes them in.           *)
(***************************************************************************)
EXTENDS Naturals, Integers, Sequences, FiniteSets, TLC

\* ---------------------------------------------------------------- bounds
MaxRows == 3        \* data rows of the file the user starts with
MaxCalls == 2       \* clicks on "Split CSV" that reach the end of split_csv
MaxGarbage == 1     \* rows the reader may pick up from a file rewritten under it

\* ------------------------------------------------------- texts and paths
SelectedFile == "Selected File: "
DestinationFolder == "Destination Folder: "
NoneText == "None"

\* QLabel text built by the f-strings of lines 42, 49, 81, 90, 165, 166:
\* a fixed caption followed by a value.
LabelText(caption, value) == <<caption, value>>

\* str.replace(old, '') on such a text (lines 96-97)
Replace(text, old) == IF text[1] = old THEN text[2] ELSE text[1] \o text[2]

\* f'{new_file_prefix}_{file_idx}.csv' (line 140)
TargetFilename(prefix, idx) == prefix \o "_" \o ToString(idx) \o ".csv"

\* os.path.join(dest_folder, target_filename) (line 141)
Join(folder, name) == folder \o "/" \o name

TargetFilepath(folder, prefix, idx) == Join(folder, TargetFilename(prefix, idx))

\* what the two dialogs and the two line edits can hold
Folders == {"d"}
PrefixTexts == {"", "p"}
EntryTexts == {<<>>, <<"-", "1">>, <<"0">>, <<"1">>, <<"2">>}

\* the places where the user's file may live: outside the destination, or
\* under a name that csv_split itself writes
UserFiles == {"in/big.csv", TargetFilepath("d", "p", 0), TargetFilepath("d", "p", 1)}

\* ------------------------------------------------------------- rows
HeaderRows == {<<>>, <<"a", "b">>}      \* a blank first line parses to []
DataRow(k) == <<"r" \o ToString(k)>>
BadRow == <<"\\0">>                     \* a line csv.reader raises csv.Error on
GarbageRow == <<"~">>                   \* a row read back from a rewritten file

DataRows(n, bad) == [k \in 1..n |-> IF k = bad THEN BadRow ELSE DataRow(k)]

\* contents the user's file may have: empty, or a header and n data rows,
\* at most one of them unreadable
UserContents ==
    {<<>>} \cup {<<h>> \o DataRows(n, bad) : h \in HeaderRows, n \in 0..MaxRows, bad \in 0..MaxRows}

\* ------------------------------------------------------------- int()
DigitValue(c) == CASE c = "0" -> 0 [] c = "1" -> 1 [] c = "2" -> 2 [] c = "3" -> 3 [] OTHER -> -1

RECURSIVE DigitsValue(_)
DigitsValue(t) ==
    IF t = <<>> THEN 0 ELSE 10 * DigitsValue(SubSeq(t, 1, Len(t) - 1)) + DigitValue(t[Len(t)])

AllDigits(t) == t # <<>> /\ \A j \in 1..Len(t) : DigitValue(t[j]) >= 0

\* int(text) of line 100: the ValueError case, and the value otherwise
IsInt(t) == IF t # <<>> /\ t[1] = "-" THEN AllDigits(Tail(t)) ELSE AllDigits(t)
IntValue(t) == IF t[1] = "-" THEN 0 - DigitsValue(Tail(t)) ELSE DigitsValue(t)

\* ------------------------------------------------------------- state
VARIABLES
    source_file_label, dest_folder_label,   \* QLabel texts
    new_file_name_input, record_per_input,  \* QLineEdit texts
    message,                                \* the last QMessageBox shown
    files, dirs,                            \* the filesystem: path -> rows, and folders
    pc,                                     \* where csv_split stands ("idle": not running)
    source_filepath, dest_folder, new_file_prefix, entries_per_file,
    reader, headers, file_idx, records_exist, i,
    files0, dirs0,                          \* the filesystem when csv_split was entered
    opened,                                 \* the source was opened by this call
    created,                                \* file_idx values whose file this call opened
    chunks,                                 \* file_idx -> rows next(reader) returned for it
    clobbered,                              \* the source was opened for writing by this call
    garbage,                                \* rows read back from the rewritten source
    calls

gui == <<source_file_label, dest_folder_label, new_file_name_input, record_per_input>>
fsys == <<files, dirs>>
args == <<source_filepath, dest_folder, new_file_prefix, entries_per_file>>
locals == <<reader, headers, file_idx, records_exist, i>>
ghost == <<files0, dirs0, opened, created, chunks, clobbered, garbage>>
vars == <<gui, message, fsys, pc, args, locals, ghost, calls>>

NoMessage == <<"none", "">>
Warning(text) == <<"warning", text>>
Information(text) == <<"information", text>>
Critical(text) == <<"critical", text>>

\* ------------------------------------------------------------- __init__ / initUI
Init ==
    /\ source_file_label = LabelText(SelectedFile, NoneText)
    /\ dest_folder_label = LabelText(DestinationFolder, NoneText)
    /\ new_file_name_input = ""
    /\ record_per_input = <<>>
    /\ message = NoMessage
    /\ \E f \in UserFiles, c \in UserContents : files = (f :> c)
    /\ dirs = {"in", "d"}
    /\ pc = "idle"
    /\ source_filepath = "" /\ dest_folder = "" /\ new_file_prefix = "" /\ entries_per_file = 0
    /\ reader = <<>> /\ headers = <<>> /\ file_idx = 0 /\ records_exist = FALSE /\ i = 0
    /\ files0 = files /\ dirs0 = dirs
    /\ opened = FALSE /\ created = {} /\ chunks = <<>> /\ clobbered = FALSE /\ garbage = 0
    /\ calls = 0

\* the form takes input only between calls, and only while a call may follow
Idle == pc = "idle" /\ calls < MaxCalls

\* ------------------------------------------------------------- the form
\* lines 74-81: the dialog returns an existing file, or '' when cancelled
find_source_files ==
    /\ Idle
    /\ \E file \in DOMAIN files \cup {""} :
        source_file_label' =
            IF file # "" THEN LabelText(SelectedFile, file) ELSE source_file_label
    /\ UNCHANGED <<dest_folder_label, new_file_name_input, record_per_input,
                   message, fsys, pc, args, locals, ghost, calls>>

\* lines 83-90
select_folder ==
    /\ Idle
    /\ \E folder \in Folders \cup {""} :
        dest_folder_label' =
            IF folder # "" THEN LabelText(DestinationFolder, folder) ELSE dest_folder_label
    /\ UNCHANGED <<source_file_label, new_file_name_input, record_per_input,
                   message, fsys, pc, args, locals, ghost, calls>>

\* typing into the QLineEdit of line 55
edit_new_file_name ==
    /\ Idle
    /\ \E t \in PrefixTexts : new_file_name_input' = t
    /\ UNCHANGED <<source_file_label, dest_folder_label, record_per_input,
                   message, fsys, pc, args, locals, ghost, calls>>

\* typing into the QLineEdit of line 61
edit_record_per ==
    /\ Idle
    /\ \E t \in EntryTexts : record_per_input' = t
    /\ UNCHANGED <<source_file_label, dest_folder_label, new_file_name_input,
                   message, fsys, pc, args, locals, ghost, calls>>

\* lines 161-168
reset_fields ==
    /\ Idle
    /\ source_file_label' = LabelText(SelectedFile, NoneText)
    /\ dest_folder_label' = LabelText(DestinationFolder, NoneText)
    /\ new_file_name_input' = ""
    /\ record_per_input' = <<>>
    /\ UNCHANGED <<message, fsys, pc, args, locals, ghost, calls>>

\* line 105
FieldMissing(src, dst, prefix) == src = "" \/ dst = "" \/ prefix = ""

\* lines 92-110: the click, up to and including the call of csv_split
split_csv ==
    /\ Idle
    /\ LET src == Replace(source_file_label, SelectedFile)
           dst == Replace(dest_folder_label, DestinationFolder)
           prefix == new_file_name_input
       IN  IF ~IsInt(record_per_input)
           THEN /\ message' = Warning("Entries Per CSV File must be an integer.")
                /\ calls' = calls + 1
                /\ UNCHANGED <<pc, args, locals, ghost>>
           ELSE IF FieldMissing(src, dst, prefix)
           THEN /\ message' = Warning("All fields must be filled out.")
                /\ calls' = calls + 1
                /\ UNCHANGED <<pc, args, locals, ghost>>
           ELSE /\ pc' = "csv_split"
                /\ source_filepath' = src
                /\ dest_folder' = dst
                /\ new_file_prefix' = prefix
                /\ entries_per_file' = IntValue(record_per_input)
                /\ reader' = <<>> /\ headers' = <<>> /\ file_idx' = 0
                /\ records_exist' = FALSE /\ i' = 0
                /\ files0' = files /\ dirs0' = dirs
                /\ opened' = FALSE /\ created' = {} /\ chunks' = <<>>
                /\ clobbered' = FALSE /\ garbage' = 0
                /\ message' = NoMessage
                /\ UNCHANGED calls
    /\ UNCHANGED <<gui, fsys>>

\* lines 112-113: an exception leaves csv_split and is shown
Raise(text) ==
    /\ pc' = "idle"
    /\ message' = Critical(text)
    /\ calls' = calls + 1

\* ------------------------------------------------------------- csv_split
\* line 125 with < for <=: zero entries per file gets through
EntriesInvalidStrict(n) == n < 0

\* line 125
EntriesInvalid(n) == n <= 0

\* os.path.exists (line 128)
Exists(path) == path \in dirs \/ path \in DOMAIN files

\* the file at path holding rows, the others as they are
WithFile(fs, path, rows) == [p \in DOMAIN fs \cup {path} |-> IF p = path THEN rows ELSE fs[p]]

\* os.remove (line 157)
Remove(fs, path) == [p \in DOMAIN fs \ {path} |-> fs[p]]

\* lines 125-129
csv_split_check ==
    /\ pc = "csv_split"
    /\ IF EntriesInvalid(entries_per_file)
       THEN /\ Raise("The file must have one or more entries")
            /\ UNCHANGED dirs
       ELSE /\ dirs' = IF Exists(dest_folder) THEN dirs ELSE dirs \cup {dest_folder}
            /\ pc' = "open_source"
            /\ UNCHANGED <<message, calls>>
    /\ UNCHANGED <<gui, files, args, locals, ghost>>

\* lines 131-136: open the source, take the header
csv_split_open_source ==
    /\ pc = "open_source"
    /\ IF source_filepath \notin DOMAIN files
       THEN /\ Raise("IOError")
            /\ UNCHANGED <<locals, opened>>
       ELSE /\ opened' = TRUE
            /\ IF files[source_filepath] = <<>>
               THEN /\ Raise("")                        \* StopIteration of line 133
                    /\ UNCHANGED locals
               ELSE IF Head(files[source_filepath]) = BadRow
               THEN /\ Raise("csv.Error")
                    /\ UNCHANGED locals
               ELSE /\ headers' = Head(files[source_filepath])
                    /\ reader' = Tail(files[source_filepath])
                    /\ file_idx' = 0
                    /\ records_exist' = TRUE
                    /\ pc' = "open_target"
                    /\ UNCHANGED <<i, message, calls>>
    /\ UNCHANGED <<gui, fsys, args, files0, dirs0, created, chunks, clobbered, garbage>>

\* lines 145-146 without the test of line 145: the header row is written
\* even when it is empty
HeaderRowsWrittenAlways(h) == <<h>>

\* lines 145-146: the rows a fresh target starts with
HeaderRowsWritten(h) == IF h # <<>> THEN <<h>> ELSE <<>>

\* line 148 with <= for <: one row too many per file
MoreEntriesInclusive(count, n) == count <= n

\* line 148
MoreEntries(count, n) == count < n

Target == TargetFilepath(dest_folder, new_file_prefix, file_idx)

\* lines 138-146: the loop test, then the target is opened (truncated) and
\* gets the header
csv_split_open_target ==
    /\ pc = "open_target"
    /\ i' = 0
    /\ files' = WithFile(files, Target, HeaderRowsWritten(headers))
    /\ created' = created \cup {file_idx}
    /\ chunks' = (file_idx :> <<>>) @@ chunks
    /\ clobbered' = (clobbered \/ Target = source_filepath)
    /\ pc' = "rows"
    /\ UNCHANGED <<gui, message, dirs, args, reader, headers, file_idx, records_exist,
                   files0, dirs0, opened, garbage, calls>>

\* next(reader) of line 150: what it can give, each with the reader left
\* behind.  While the source is untouched it is the next row, csv.Error on
\* a line that does not parse, StopIteration at the end.  Once this call
\* has opened the source's own path for writing, the reader holds a buffer
\* of the old content over a file that is being rewritten: it may also hit
\* the end early, or read back a row of the new content.
NextOutcomes ==
    (IF reader = <<>> THEN {[kind |-> "stop", row |-> <<>>, rest |-> <<>>]}
     ELSE IF Head(reader) = BadRow THEN {[kind |-> "error", row |-> <<>>, rest |-> reader]}
     ELSE {[kind |-> "row", row |-> Head(reader), rest |-> Tail(reader)]})
    \cup
    (IF clobbered
     THEN {[kind |-> "stop", row |-> <<>>, rest |-> <<>>]}
          \cup (IF garbage < MaxGarbage
                THEN {[kind |-> "garbage", row |-> GarbageRow, rest |-> <<>>]}
                ELSE {})
     ELSE {})

\* lines 148-154: one turn of the inner loop
csv_split_row ==
    /\ pc = "rows"
    /\ IF MoreEntries(i, entries_per_file)
       THEN \E o \in NextOutcomes :
             CASE o.kind \in {"row", "garbage"} ->
                    /\ files' = WithFile(files, Target, files[Target] \o <<o.row>>)
                    /\ chunks' = [chunks EXCEPT ![file_idx] = @ \o <<o.row>>]
                    /\ reader' = o.rest
                    /\ i' = i + 1
                    /\ garbage' = IF o.kind = "garbage" THEN garbage + 1 ELSE garbage
                    /\ UNCHANGED <<pc, message, records_exist, calls>>
               [] o.kind = "stop" ->
                    /\ records_exist' = FALSE
                    /\ reader' = o.rest
                    /\ pc' = "close_target"
                    /\ UNCHANGED <<files, chunks, i, garbage, message, calls>>
               [] o.kind = "error" ->
                    /\ Raise("csv.Error")
                    /\ UNCHANGED <<files, chunks, reader, i, garbage, records_exist>>
       ELSE /\ pc' = "close_target"
            /\ UNCHANGED <<files, chunks, reader, i, garbage, records_exist, message, calls>>
    /\ UNCHANGED <<gui, dirs, args, headers, file_idx, files0, dirs0, opened, created, clobbered>>

\* lines 156-159 and the loop test of line 138; line 111 when the loop ends
csv_split_close_target ==
    /\ pc = "close_target"
    /\ files' = IF i = 0 THEN Remove(files, Target) ELSE files
    /\ file_idx' = file_idx + 1
    /\ IF records_exist
       THEN /\ pc' = "open_target"
            /\ UNCHANGED <<message, calls>>
       ELSE /\ pc' = "idle"
            /\ message' = Information("CSV files split successfully!")
            /\ calls' = calls + 1
    /\ UNCHANGED <<gui, dirs, args, reader, headers, records_exist, i, ghost>>

Next ==
    \/ find_source_files
    \/ select_folder
    \/ edit_new_file_name
    \/ edit_record_per
    \/ reset_fields
    \/ split_csv
    \/ csv_split_check
    \/ csv_split_open_source
    \/ csv_split_open_target
    \/ csv_split_row
    \/ csv_split_close_target

Spec == Init /\ [][Next]_vars

TypeOK == pc \in {"idle", "csv_split", "open_source", "open_target", "rows", "close_target"}

\* ------------------------------------------------------------- after a call
Success == Information("CSV files split successfully!")

\* csv_split has returned normally and no later click has replaced its result
Returned == pc = "idle" /\ message = Success

\* csv_split has ended, normally or by raising
Ended == pc = "idle" /\ source_filepath # ""

\* the source as it was when csv_split was entered
SourceReadable == source_filepath \in DOMAIN files0 /\ files0[source_filepath] # <<>>
SourceHeader0 == Head(files0[source_filepath])
SourceData0 == Tail(files0[source_filepath])

PathOf(k) == TargetFilepath(dest_folder, new_file_prefix, k)

\* the output files of this call that are on disk
Survivors == {k \in created : PathOf(k) \in DOMAIN files}

\* a surviving file's rows after its header row
DataOf(k) == IF headers # <<>> THEN Tail(files[PathOf(k)]) ELSE files[PathOf(k)]

Highest(S) == CHOOSE k \in S : \A j \in S : j <= k

RECURSIVE ConcatBelow(_)
\* the data rows of the survivors with index below k, in index order
ConcatBelow(k) ==
    IF k = 0 THEN <<>>
    ELSE ConcatBelow(k - 1) \o (IF (k - 1) \in Survivors THEN DataOf(k - 1) ELSE <<>>)

CeilDiv(a, b) == (a + b - 1) \div b

\* ------------------------------------------------------------- claims

\* C1: after a successful call with N >= 1 the data rows of the surviving
\* output files, taken in index order, are exactly the source's data rows.
C1_RowsPartitioned ==
    (Returned /\ entries_per_file >= 1)
        => ConcatBelow(file_idx) = SourceData0

\* C2: after a successful call every surviving output file but the one with
\* the highest index holds exactly N data rows, and that one holds 1..N.
C2_ChunkSizes ==
    (Returned /\ entries_per_file >= 1) =>
        \A k \in Survivors :
            IF k = Highest(Survivors)
            THEN Len(DataOf(k)) \in 1..entries_per_file
            ELSE Len(DataOf(k)) = entries_per_file

\* a call that left two full files and a shorter last one
C2_Witness ==
    /\ Returned
    /\ entries_per_file = 1 \/ entries_per_file = 2
    /\ Cardinality(Survivors) >= 2
    /\ Len(DataOf(Highest(Survivors))) < entries_per_file

\* C3: when a call ends, by returning or by raising, none of the output
\* files it created is left on disk with zero data rows.
C3_NoEmptyFilePersists ==
    Ended => \A k \in Survivors : Len(DataOf(k)) >= 1

\* C4: a call with N <= 0 raises the 'one or more entries' error and leaves
\* the filesystem alone: no folder made, source not opened, no file made or
\* removed.
C4_InvalidEntriesNoIO ==
    /\ [](source_filepath # "" /\ entries_per_file <= 0 =>
            /\ pc \in {"csv_split", "idle"}
            /\ files = files0 /\ dirs = dirs0
            /\ ~opened /\ created = {})
    /\ [][pc = "csv_split" /\ entries_per_file <= 0 =>
            /\ pc' = "idle"
            /\ message' = Critical("The file must have one or more entries")
            /\ files' = files /\ dirs' = dirs]_vars

\* a rejected call whose destination folder did not exist
C4_Witness ==
    /\ pc = "idle"
    /\ source_filepath # "" /\ entries_per_file <= 0
    /\ message = Critical("The file must have one or more entries")
    /\ dest_folder = NoneText /\ NoneText \notin dirs

\* C5: when a call ends the source file holds what it held before the
\* call, whatever its path, and a successful call has read every source
\* row once, in order.
C5_SourceNotMutated ==
    (Ended /\ source_filepath \in DOMAIN files0) =>
        /\ source_filepath \in DOMAIN files
        /\ files[source_filepath] = files0[source_filepath]
        /\ Returned => reader = <<>> /\ garbage = 0

\* C6: csv_split runs only when a source file and a destination folder have
\* been chosen and the prefix is filled in.
C6_CalledOnlyWithFields ==
    pc # "idle" =>
        /\ source_file_label # LabelText(SelectedFile, NoneText)
        /\ dest_folder_label # LabelText(DestinationFolder, NoneText)
        /\ new_file_name_input # ""

\* C7: for a source of exactly k * N data rows (k >= 1) the call never
\* opens an output file with index k, and leaves exactly k files of N rows.
\* Stated for the calls that have not rewritten their own source, where the
\* rest of the statement holds.
C7_NoExtraFileOpened ==
    (/\ source_filepath # "" /\ entries_per_file >= 1
     /\ SourceReadable /\ ~clobbered
     /\ \A j \in 1..Len(SourceData0) : SourceData0[j] # BadRow
     /\ Len(SourceData0) >= 1
     /\ Len(SourceData0) % entries_per_file = 0)
    => LET k == Len(SourceData0) \div entries_per_file
       IN  /\ k \notin created
           /\ Returned => /\ Survivors = 0..(k - 1)
                          /\ \A j \in Survivors : Len(DataOf(j)) = entries_per_file

\* C8: after a successful call on n data rows the surviving files of the
\* call are exactly those with index 0 .. ceil(n / N) - 1.
C8_ContiguousIndices ==
    (Returned /\ entries_per_file >= 1) =>
        Survivors = 0..(CeilDiv(Len(SourceData0), entries_per_file) - 1)

\* C9: after a successful call every surviving output file is the source
\* header, when it is not empty, followed by the rows read for that file;
\* with an empty header it is those rows alone.
C9_HeaderFirst ==
    Returned =>
        /\ headers = SourceHeader0
        /\ \A k \in Survivors :
            LET f == files[PathOf(k)]
            IN  IF SourceHeader0 # <<>>
                THEN /\ Len(f) = Len(chunks[k]) + 1
                     /\ f[1] = SourceHeader0
                     /\ \A j \in 1..Len(chunks[k]) : f[j + 1] = chunks[k][j]
                ELSE f = chunks[k]

\* a call with a header that left two files
C9_Witness ==
    /\ Returned
    /\ SourceHeader0 # <<>>
    /\ Cardinality(Survivors) >= 2

\* C10: a successful call on n data rows ends with the source drained and
\* file_idx = floor(n / N) + 1, one per file attempted.
C10_IterationCount ==
    (Returned /\ entries_per_file >= 1) =>
        /\ file_idx = Len(SourceData0) \div entries_per_file + 1
        /\ created = 0..(file_idx - 1)
        /\ reader = <<>>

\* ------------------------------------------------------------- the same, source left alone
\* What C1, C7, C8 and C10 say does hold of the calls that never open their
\* own source for writing.

Undisturbed_RowsPartitioned ==
    (Returned /\ entries_per_file >= 1 /\ ~clobbered)
        => ConcatBelow(file_idx) = SourceData0

Undisturbed_ContiguousIndices ==
    (Returned /\ entries_per_file >= 1 /\ ~clobbered) =>
        Survivors = 0..(CeilDiv(Len(SourceData0), entries_per_file) - 1)

Undisturbed_IterationCount ==
    (Returned /\ entries_per_file >= 1 /\ ~clobbered) =>
        /\ file_idx = Len(SourceData0) \div entries_per_file + 1
        /\ created = 0..(file_idx - 1)
        /\ reader = <<>>

\* on k * N rows the file with index k is opened, gets no row and is removed
Undisturbed_ExtraFileRemoved ==
    (/\ Returned /\ entries_per_file >= 1 /\ ~clobbered
     /\ Len(SourceData0) >= 1
     /\ Len(SourceData0) % entries_per_file = 0)
    => LET k == Len(SourceData0) \div entries_per_file
       IN  /\ k \in created
           /\ Survivors = 0..(k - 1)
           /\ \A j \in Survivors : Len(DataOf(j)) = entries_per_file

====
